---------------------------- MODULE Spec2Model ----------------------------
(***************************************************************************)
(* Spotify -> YouTube pipeline: the orchestrator run() / _process_playlist *)
(* of src/src/pipeline.py with the stage functions it calls                *)
(* (spotify_client.py, image_generator.py, audio_downloader.py,            *)
(* video_assembler.py, youtube_client.py).                                 *)
(*                                                                         *)
(* Strings are sequences of one-character strings, so that the substring   *)
(* test, str.replace and the file-name sanitisers are computed as the code *)
(* computes them.                                                          *)
(***************************************************************************)
EXTENDS Integers, Sequences, FiniteSets, TLC

\* ------------------------------------------------------------------ bounds
\* Longest track list of a playlist of the library.
MaxTracks == 2
\* Number of successive invocations of run() (python main.py).
MaxRuns == 2
\* Page size of the playlist listing; stands for limit = 50
\* (spotify_client.py:76), scaled so that the library spans several pages.
PageLimit == 1
\* Longest track list handed to download_tracks on its own (SpecDownload).
MaxBatch == 3

\* --------------------------------------------------------------- constants
YOUTUBE_TAG == <<"[", "Y", "O", "U", "T", "U", "B", "E", "]">>
DONE_TAG == <<"[", "D", "O", "N", "E", "]">>

\* Positional parameters of generate_thumbnail(playlist_name, work_dir).
GenerateThumbnailParams == 2
\* Positional arguments of the orchestrator's call
\* generate_thumbnail(playlist.name, work_dir, playlist.cover_url).
ThumbnailCallArgs == 3
\* Parameters of ThumbnailProvider.getThumbnail(name, workArea, coverRef),
\* the interface the orchestrator is written against.
ProviderParams == 3
\* _safe_filename keeps the first 180 characters.
SafeFilenameMax == 180

DefaultThumbnail == <<"assets", "default_thumbnail.jpg">>

\* ----------------------------------------------------------------- strings
Letters == {"R", "X", "A", "C", "U", "Y", "O", "T", "B", "E", "D", "N"}
\* str.isalnum() on the characters that occur.
IsAlnum(c) == c \in Letters

\* Python: sub in s.
Contains(sub, s) ==
    \E i \in 1..(Len(s) - Len(sub) + 1) : SubSeq(s, i, i + Len(sub) - 1) = sub

\* Python s.replace(old, new): every non-overlapping occurrence, leftmost first.
RECURSIVE Replace(_, _, _)
Replace(s, old, new) ==
    IF Len(s) < Len(old) THEN s
    ELSE IF SubSeq(s, 1, Len(old)) = old
         THEN new \o Replace(SubSeq(s, Len(old) + 1, Len(s)), old, new)
         ELSE <<Head(s)>> \o Replace(Tail(s), old, new)

\* Python s.strip(): leading and trailing blanks removed.
RECURSIVE LStrip(_)
LStrip(s) == IF s # <<>> /\ Head(s) = " " THEN LStrip(Tail(s)) ELSE s
RECURSIVE RStrip(_)
RStrip(s) ==
    IF s # <<>> /\ s[Len(s)] = " " THEN RStrip(SubSeq(s, 1, Len(s) - 1)) ELSE s
Strip(s) == LStrip(RStrip(s))

\* "".join(c if c.isalnum() or c in " _-" else "_" for c in name)
Sanitize(name) ==
    [i \in 1..Len(name) |->
        IF IsAlnum(name[i]) \/ name[i] \in {" ", "_", "-"} THEN name[i] ELSE "_"]

\* safe_name of _process_playlist: the directory name of the WorkArea.
SafeName(name) == Strip(Sanitize(name))

\* safe_name of generate_thumbnail (not stripped): thumbnail_<safe>.png
ThumbnailFile(name) == <<"thumbnail_">> \o Sanitize(name) \o <<".png">>

\* The characters of the class of _safe_filename: backslash, slash, star,
\* question mark, colon, double quote, angle brackets, bar, quote, backquote
\* (the three quotes are written by name).
UnsafeChars == {"\\", "/", "*", "?", ":", "dquote", "<", ">", "|", "quote", "backquote"}
\* _safe_filename: every character of the class becomes "_", then the first
\* 180 characters are kept.
SafeFilename(name) ==
    LET sub == [i \in 1..Len(name) |-> IF name[i] \in UnsafeChars THEN "_" ELSE name[i]]
    IN  SubSeq(sub, 1, IF Len(sub) < SafeFilenameMax THEN Len(sub) ELSE SafeFilenameMax)

\* ------------------------------------------------------------------ world
\* Track(title, artist, duration_ms); the duration is read by no stage.
TrackA == [artist |-> <<"X">>, title |-> <<"A", "?">>]
TrackB == [artist |-> <<"X">>, title |-> <<"A", "*">>]
TrackC == [artist |-> <<"X">>, title |-> <<"C">>]
TrackU == [artist |-> <<"X">>, title |-> <<"U">>]
NoTrack == [artist |-> <<>>, title |-> <<>>]
Tracks == {TrackA, TrackB, TrackC, TrackU}
\* The tracks the YouTube search of yt-dlp finds and writes as mp3.
Retrievable == {TrackA, TrackB, TrackC}

SeqsUpTo(S, n) == UNION {[1..k -> S] : k \in 0..n}
\* Track lists of the playlists of the library.
LibraryTrackLists == SeqsUpTo({TrackA, TrackU}, MaxTracks)
\* Track lists handed to download_tracks on its own.
BatchTrackLists == SeqsUpTo(Tracks, MaxBatch)

\* The account's playlists, in the order current_user_playlists lists them.
Library == <<"p1", "p2">>
PlaylistIds == {Library[i] : i \in 1..Len(Library)}

NameRoadtrip == <<"R", " ">> \o YOUTUBE_TAG
NamePlain == <<"R">>
NameDone == <<"R", " ">> \o DONE_TAG
NameTwice == YOUTUBE_TAG \o <<"[">> \o YOUTUBE_TAG
\* Another display name with the directory and thumbnail names of NameTwice.
NameJoined == YOUTUBE_TAG \o <<"_">> \o YOUTUBE_TAG
PlaylistNames == {NameRoadtrip, NamePlain, NameDone, NameTwice, NameJoined}

Stages == {"thumbnail", "audio", "compose", "publish", "mark"}

VARIABLES
    remote,          \* Spotify: id -> [name, tracks]
    thumbnailParams, \* positional parameters of the bound generate_thumbnail
    fs,              \* WORK_DIR: directory name -> set of files
    run,             \* number of the current invocation of run()
    pc,              \* position of the single thread of control
    offset,          \* get_tagged_playlists: offset
    tagged,          \* get_tagged_playlists: tagged
    playlists,       \* run: playlists
    idx,             \* run: position of the for loop
    work_dir,        \* _process_playlist: work_dir
    thumbnail_path,  \* _process_playlist: thumbnail_path
    downloaded,      \* _process_playlist: downloaded
    audio_paths,     \* assemble_video: audio_paths
    reused,          \* files an exists() check found during this playlist
    calls,           \* this run: id -> stage -> number of calls
    visits,          \* this run: id -> number of _process_playlist calls
    outcome,         \* this run: id -> none/running/done/aborted/raised
    raisedIn,        \* this run: id -> stage that raised, or none
    retrieved,       \* this run: id -> length of download_tracks' result, or -1
    composed,        \* this run: id -> audio inputs of assemble_video, or -1
    discoveryRaised, \* this run: get_tagged_playlists raised
    namesAtStart,    \* remote names when this run began
    doneInRun,       \* id -> run whose mark_playlist_done renamed it, or 0
    pendingSince     \* id -> last run that ended its processing unmarked, or 0

world == <<remote, thumbnailParams>>
control == <<run, pc, offset, tagged, playlists, idx>>
locals == <<work_dir, thumbnail_path, downloaded, audio_paths, reused>>
stageLog == <<retrieved, composed>>
history == <<calls, visits, outcome, raisedIn, stageLog, discoveryRaised, namesAtStart, doneInRun, pendingSince>>
vars == <<world, fs, control, locals, history>>

\* ------------------------------------------------------------- file system
Exists(dir) == dir \in DOMAIN fs
\* Path.mkdir(parents=True, exist_ok=True)
Mkdir(dir) == IF Exists(dir) THEN fs ELSE [d \in DOMAIN fs \cup {dir} |-> IF d = dir THEN {} ELSE fs[d]]
\* shutil.rmtree(work_dir, ignore_errors=True)
Rmtree(dir) == [d \in DOMAIN fs \ {dir} |-> fs[d]]
FilesNamed(files, name) == {f \in files : f.name = name}
NewFile(name, kind, track, stamp) ==
    [name |-> name, kind |-> kind, track |-> track, by |-> stamp]

\* ---------------------------------------------------------- spotify_client
\* Mutant: the filter tests the other marker.
IsTaggedDone(id) == Contains(DONE_TAG, remote[id].name)
\* if YOUTUBE_TAG in name
IsTagged(id) == Contains(YOUTUBE_TAG, remote[id].name)
\* Mutant: the arguments of replace are exchanged.
MarkNewNameSwapped(current_name) == Replace(current_name, DONE_TAG, YOUTUBE_TAG)
\* new_name of mark_playlist_done
MarkNewName(current_name) == Replace(current_name, YOUTUBE_TAG, DONE_TAG)

\* The items of the page at the current offset.
PageItems ==
    SubSeq(Library, offset + 1,
           IF offset + PageLimit < Len(Library) THEN offset + PageLimit ELSE Len(Library))
\* response["next"] is None
NextIsNone == offset + PageLimit >= Len(Library)
\* The Playlist objects appended for the tagged items among `items`.
TaggedOf(items) ==
    LET hit == SelectSeq(items, IsTagged)
    IN  [i \in 1..Len(hit) |->
            [id |-> hit[i], name |-> remote[hit[i]].name, tracks |-> remote[hit[i]].tracks]]

\* -------------------------------------------------------- audio_downloader
Query(track) == track.artist \o <<" ", "-", " ">> \o track.title
AudioFile(track) == SafeFilename(Query(track)) \o <<".mp3">>

\* _download_single: the path, or FileNotFoundError.
DownloadSingle(track, dir, files, stamp) ==
    LET name == AudioFile(track)
        found == FilesNamed(files, name)
    IN  IF found # {}
        THEN [ok |-> TRUE, path |-> <<dir, name>>, files |-> files, reused |-> found]
        ELSE IF track \in Retrievable
             THEN [ok |-> TRUE, path |-> <<dir, name>>,
                   files |-> files \cup {NewFile(name, "audio", track, stamp)},
                   reused |-> {}]
             ELSE [ok |-> FALSE, path |-> <<dir, name>>, files |-> files, reused |-> {}]

\* download_tracks: the loop over tracks, from position i on.
RECURSIVE DownloadFrom(_, _, _, _, _)
DownloadFrom(tracks, i, dir, stamp, acc) ==
    IF i > Len(tracks) THEN acc
    ELSE LET r == DownloadSingle(tracks[i], dir, acc.files, stamp)
         IN  DownloadFrom(tracks, i + 1, dir, stamp,
                [results |-> IF r.ok
                             THEN Append(acc.results, [track |-> tracks[i], audio_path |-> r.path])
                             ELSE acc.results,
                 files |-> r.files,
                 reused |-> acc.reused \cup r.reused])
download_tracks(tracks, dir, files, stamp) ==
    DownloadFrom(tracks, 1, dir, stamp, [results |-> <<>>, files |-> files, reused |-> {}])

\* ------------------------------------------------------------------- init
NoCalls == [p \in PlaylistIds |-> [st \in Stages |-> 0]]
Zero == [p \in PlaylistIds |-> 0]
None == [p \in PlaylistIds |-> "none"]
Unset == [p \in PlaylistIds |-> -1]

InitWith(params) ==
    /\ remote \in [PlaylistIds -> [name : PlaylistNames, tracks : LibraryTrackLists]]
    /\ thumbnailParams = params
    /\ fs = <<>>
    /\ run = 0
    /\ pc = "idle"
    /\ offset = 0
    /\ tagged = <<>>
    /\ playlists = <<>>
    /\ idx = 0
    /\ work_dir = <<>>
    /\ thumbnail_path = <<>>
    /\ downloaded = <<>>
    /\ audio_paths = <<>>
    /\ reused = {}
    /\ calls = NoCalls
    /\ visits = Zero
    /\ outcome = None
    /\ raisedIn = None
    /\ retrieved = Unset
    /\ composed = Unset
    /\ discoveryRaised = FALSE
    /\ namesAtStart = [p \in PlaylistIds |-> remote[p].name]
    /\ doneInRun = Zero
    /\ pendingSince = Zero

\* The program as it is: generate_thumbnail takes two parameters.
Init == InitWith(GenerateThumbnailParams)

\* -------------------------------------------------------------------- run
Cur == playlists[idx]
Stamp == <<run, Cur.id>>
Called(stage) == calls' = [calls EXCEPT ![Cur.id][stage] = @ + 1]

\* python main.py: run() is entered.
StartRun ==
    /\ pc \in {"idle", "returned", "crashed"}
    /\ run < MaxRuns
    /\ run' = run + 1
    /\ pc' = "discover"
    /\ offset' = 0
    /\ tagged' = <<>>
    /\ playlists' = <<>>
    /\ idx' = 0
    /\ calls' = NoCalls
    /\ visits' = Zero
    /\ outcome' = None
    /\ raisedIn' = None
    /\ retrieved' = Unset
    /\ composed' = Unset
    /\ discoveryRaised' = FALSE
    /\ namesAtStart' = [p \in PlaylistIds |-> remote[p].name]
    /\ UNCHANGED <<world, fs, locals, doneInRun, pendingSince>>

\* run(): playlists = get_tagged_playlists(); if not playlists: return
ReturnTagged(found) ==
    /\ playlists' = found
    /\ idx' = 1
    /\ pc' = IF found = <<>> THEN "returned" ELSE "loop"

\* Mutant: the failure is swallowed and the playlists found so far are processed.
ProcessFoundSoFar == ReturnTagged(tagged')

\* run() has no handler around get_tagged_playlists(): its exception leaves
\* run(), and playlists is never bound.
PropagateFromRun ==
    /\ pc' = "crashed"
    /\ UNCHANGED <<playlists, idx>>

\* get_tagged_playlists: one iteration of the while loop. The client build,
\* current_user, current_user_playlists (j = 0) or _fetch_tracks of the
\* j-th item (when tagged) may raise.
GetTaggedPage ==
    /\ pc = "discover"
    /\ \/ /\ \E j \in 0..Len(PageItems) :
                /\ j > 0 => IsTagged(PageItems[j])
                /\ tagged' = tagged \o TaggedOf(SubSeq(PageItems, 1, j - 1))
          /\ discoveryRaised' = TRUE
          /\ PropagateFromRun
          /\ UNCHANGED offset
       \/ /\ tagged' = tagged \o TaggedOf(PageItems)
          /\ IF PageItems = <<>> \/ NextIsNone
             THEN ReturnTagged(tagged') /\ UNCHANGED offset
             ELSE /\ offset' = offset + PageLimit
                  /\ UNCHANGED <<playlists, idx, pc>>
          /\ UNCHANGED discoveryRaised
    /\ UNCHANGED <<world, fs, run, locals>>
    /\ UNCHANGED <<calls, visits, outcome, raisedIn, stageLog, namesAtStart, doneInRun, pendingSince>>

\* for playlist in playlists: _process_playlist(...) up to the try.
ProcessBegin ==
    /\ pc = "loop"
    /\ idx <= Len(playlists)
    /\ work_dir' = SafeName(Cur.name)
    /\ fs' = Mkdir(SafeName(Cur.name))
    /\ pc' = "thumbnail"
    /\ visits' = [visits EXCEPT ![Cur.id] = @ + 1]
    /\ outcome' = [outcome EXCEPT ![Cur.id] = "running"]
    /\ UNCHANGED <<world, run, offset, tagged, playlists, idx>>
    /\ UNCHANGED <<thumbnail_path, downloaded, audio_paths, reused>>
    /\ UNCHANGED <<calls, raisedIn, stageLog, discoveryRaised, namesAtStart, doneInRun, pendingSince>>

\* The for loop of run() is exhausted.
RunReturn ==
    /\ pc = "loop"
    /\ idx > Len(playlists)
    /\ pc' = "returned"
    /\ UNCHANGED <<world, fs, run, offset, tagged, playlists, idx, locals, history>>

\* An exception inside the try block of _process_playlist.
Raise(stage) ==
    /\ pc' = "except"
    /\ raisedIn' = [raisedIn EXCEPT ![Cur.id] = stage]

\* generate_thumbnail's body: reuse, DALL-E, Unsplash, bundled default.
GenerateThumbnail ==
    LET file == ThumbnailFile(Cur.name)
        found == FilesNamed(fs[work_dir], file)
    IN  IF found # {}
        THEN /\ thumbnail_path' = <<work_dir, file>>
             /\ reused' = reused \cup found
             /\ UNCHANGED fs
        ELSE \E source \in {"dalle", "unsplash", "default"} :
                IF source = "default"
                THEN /\ thumbnail_path' = DefaultThumbnail
                     /\ UNCHANGED <<fs, reused>>
                ELSE /\ thumbnail_path' = <<work_dir, file>>
                     /\ fs' = [fs EXCEPT ![work_dir] = @ \cup {NewFile(file, "image", NoTrack, Stamp)}]
                     /\ UNCHANGED reused

\* Step 1: thumbnail_path = generate_thumbnail(name, work_dir, cover_url).
\* Python binds the arguments first: one more than the parameters is a TypeError.
ThumbnailStage ==
    /\ pc = "thumbnail"
    /\ Called("thumbnail")
    /\ IF ThumbnailCallArgs # thumbnailParams
       THEN /\ Raise("thumbnail")
            /\ UNCHANGED <<fs, thumbnail_path, reused>>
       ELSE /\ GenerateThumbnail
            /\ pc' = "download"
            /\ UNCHANGED raisedIn
    /\ UNCHANGED <<world, run, offset, tagged, playlists, idx>>
    /\ UNCHANGED <<work_dir, downloaded, audio_paths>>
    /\ UNCHANGED <<visits, outcome, stageLog, discoveryRaised, namesAtStart, doneInRun, pendingSince>>

\* Mutant: the handler marks the playlist done before returning.
ExceptHandlerMarks ==
    /\ pc = "except"
    /\ pc' = "finally"
    /\ outcome' = [outcome EXCEPT ![Cur.id] = "raised"]
    /\ remote' = [remote EXCEPT ![Cur.id].name = Replace(Cur.name, YOUTUBE_TAG, DONE_TAG)]
    /\ UNCHANGED <<thumbnailParams, fs, run, offset, tagged, playlists, idx, locals>>
    /\ UNCHANGED <<calls, visits, raisedIn, stageLog, discoveryRaised, namesAtStart, doneInRun, pendingSince>>

\* Mutant: the handler re-raises; finally cleans up and the exception
\* leaves _process_playlist and run().
ExceptHandlerReraises ==
    /\ pc = "except"
    /\ pc' = "crashed"
    /\ fs' = [d \in DOMAIN fs \ {work_dir} |-> fs[d]]
    /\ outcome' = [outcome EXCEPT ![Cur.id] = "raised"]
    /\ UNCHANGED <<world, run, offset, tagged, playlists, idx, locals>>
    /\ UNCHANGED <<calls, visits, raisedIn, stageLog, discoveryRaised, namesAtStart, doneInRun, pendingSince>>

\* except Exception: logged, return (through finally).
ExceptHandler ==
    /\ pc = "except"
    /\ pc' = "finally"
    /\ outcome' = [outcome EXCEPT ![Cur.id] = "raised"]
    /\ UNCHANGED <<world, fs, run, offset, tagged, playlists, idx, locals>>
    /\ UNCHANGED <<calls, visits, raisedIn, stageLog, discoveryRaised, namesAtStart, doneInRun, pendingSince>>

\* The finally clause leaving the directory tree as newfs; back in run()'s loop.
FinallyWith(newfs) ==
    /\ pc = "finally"
    /\ fs' = newfs
    /\ pc' = "loop"
    /\ idx' = idx + 1
    /\ work_dir' = <<>>
    /\ thumbnail_path' = <<>>
    /\ downloaded' = <<>>
    /\ audio_paths' = <<>>
    /\ reused' = {}
    /\ pendingSince' = IF outcome[Cur.id] = "done" THEN pendingSince
                       ELSE [pendingSince EXCEPT ![Cur.id] = run]
    /\ UNCHANGED <<world, run, offset, tagged, playlists>>
    /\ UNCHANGED <<calls, visits, outcome, raisedIn, stageLog, discoveryRaised, namesAtStart, doneInRun>>

\* Mutant: the cleanup sits at the end of the try block, so it runs only
\* when every step returned.
FinallyOnSuccessOnly ==
    FinallyWith(IF outcome[Cur.id] = "done" THEN Rmtree(work_dir) ELSE fs)

\* Mutant: no cleanup at all.
FinallyNoCleanup == FinallyWith(fs)

\* finally: shutil.rmtree(work_dir, ignore_errors=True)
Finally == FinallyWith(Rmtree(work_dir))

\* Step 2: downloaded = download_tracks(playlist.tracks, work_dir); with
\* abortOnEmpty, "if not downloaded: return" (through finally).
DownloadStageWith(abortOnEmpty) ==
    /\ pc = "download"
    /\ Called("audio")
    /\ LET r == download_tracks(Cur.tracks, work_dir, fs[work_dir], Stamp)
       IN  /\ downloaded' = r.results
           /\ retrieved' = [retrieved EXCEPT ![Cur.id] = Len(r.results)]
           /\ fs' = [fs EXCEPT ![work_dir] = r.files]
           /\ reused' = reused \cup r.reused
           /\ IF abortOnEmpty /\ r.results = <<>>
              THEN /\ pc' = "finally"
                   /\ outcome' = [outcome EXCEPT ![Cur.id] = "aborted"]
              ELSE /\ pc' = "assemble"
                   /\ UNCHANGED outcome
    /\ UNCHANGED <<world, run, offset, tagged, playlists, idx>>
    /\ UNCHANGED <<work_dir, thumbnail_path, audio_paths>>
    /\ UNCHANGED <<visits, raisedIn, composed, discoveryRaised, namesAtStart, doneInRun, pendingSince>>

\* Mutant: the empty result is not tested.
DownloadStageNoAbort == DownloadStageWith(FALSE)

DownloadStage == DownloadStageWith(TRUE)

\* Step 3: assemble_video(downloaded, thumbnail_path, video_path): ValueError
\* on an empty list, RuntimeError when FFmpeg exits non-zero.
AssembleStage ==
    /\ pc = "assemble"
    /\ Called("compose")
    /\ composed' = [composed EXCEPT ![Cur.id] = Len(downloaded)]
    /\ IF downloaded = <<>>
       THEN Raise("compose") /\ UNCHANGED audio_paths
       ELSE /\ audio_paths' = [i \in 1..Len(downloaded) |-> downloaded[i].audio_path]
            /\ \/ pc' = "upload" /\ UNCHANGED raisedIn
               \/ Raise("compose")
    /\ UNCHANGED <<world, fs, run, offset, tagged, playlists, idx>>
    /\ UNCHANGED <<work_dir, thumbnail_path, downloaded, reused>>
    /\ UNCHANGED <<visits, outcome, retrieved, discoveryRaised, namesAtStart, doneInRun, pendingSince>>

\* Mutant: the working files are removed as soon as the upload returned,
\* before step 5.
UploadStageThenCleanup ==
    /\ pc = "upload"
    /\ Called("publish")
    /\ \/ /\ pc' = "mark"
          /\ fs' = [d \in DOMAIN fs \ {work_dir} |-> fs[d]]
          /\ UNCHANGED raisedIn
       \/ /\ pc' = "except"
          /\ raisedIn' = [raisedIn EXCEPT ![Cur.id] = "publish"]
          /\ UNCHANGED fs
    /\ UNCHANGED <<world, run, offset, tagged, playlists, idx, locals>>
    /\ UNCHANGED <<visits, outcome, stageLog, discoveryRaised, namesAtStart, doneInRun, pendingSince>>

\* Step 4: video_id = upload_video(video_path, playlist): the client build,
\* the insert request or a chunk may raise.
UploadStage ==
    /\ pc = "upload"
    /\ Called("publish")
    /\ \/ pc' = "mark" /\ UNCHANGED raisedIn
       \/ Raise("publish")
    /\ UNCHANGED <<world, fs, run, offset, tagged, playlists, idx, locals>>
    /\ UNCHANGED <<visits, outcome, stageLog, discoveryRaised, namesAtStart, doneInRun, pendingSince>>

\* Mutant: step 5 sits after the try statement, so its exception meets no
\* handler and leaves _process_playlist and run().
MarkStageOutsideTry ==
    /\ pc = "mark"
    /\ Called("mark")
    /\ \/ /\ remote' = [remote EXCEPT ![Cur.id].name = Replace(Cur.name, YOUTUBE_TAG, DONE_TAG)]
          /\ outcome' = [outcome EXCEPT ![Cur.id] = "done"]
          /\ doneInRun' = [doneInRun EXCEPT ![Cur.id] = run]
          /\ pc' = "finally"
          /\ UNCHANGED raisedIn
       \/ /\ pc' = "crashed"
          /\ raisedIn' = [raisedIn EXCEPT ![Cur.id] = "mark"]
          /\ UNCHANGED <<remote, outcome, doneInRun>>
    /\ UNCHANGED <<thumbnailParams, fs, run, offset, tagged, playlists, idx, locals>>
    /\ UNCHANGED <<visits, stageLog, discoveryRaised, namesAtStart, pendingSince>>

\* Step 5: mark_playlist_done(playlist.id, playlist.name): the client build
\* or playlist_change_details may raise; else the remote name is replaced.
MarkStage ==
    /\ pc = "mark"
    /\ Called("mark")
    /\ \/ /\ remote' = [remote EXCEPT ![Cur.id].name = MarkNewName(Cur.name)]
          /\ outcome' = [outcome EXCEPT ![Cur.id] = "done"]
          /\ doneInRun' = [doneInRun EXCEPT ![Cur.id] = run]
          /\ pc' = "finally"
          /\ UNCHANGED raisedIn
       \/ /\ Raise("mark")
          /\ UNCHANGED <<remote, outcome, doneInRun>>
    /\ UNCHANGED <<thumbnailParams, fs, run, offset, tagged, playlists, idx, locals>>
    /\ UNCHANGED <<visits, stageLog, discoveryRaised, namesAtStart, pendingSince>>

Next ==
    \/ StartRun
    \/ GetTaggedPage
    \/ ProcessBegin
    \/ RunReturn
    \/ ThumbnailStage
    \/ ExceptHandler
    \/ Finally

Spec == Init /\ [][Next]_vars

\* ------------------------------------------------------------------------
\* The orchestrator bound to a thumbnail provider with the signature it is
\* written against, getThumbnail(name, workArea, coverRef): the call of
\* step 1 returns, and steps 2 to 5 run.
InitInterface == InitWith(ProviderParams)

NextInterface ==
    \/ StartRun
    \/ GetTaggedPage
    \/ ProcessBegin
    \/ RunReturn
    \/ ThumbnailStage
    \/ DownloadStage
    \/ AssembleStage
    \/ UploadStage
    \/ MarkStage
    \/ ExceptHandler
    \/ Finally

SpecInterface == InitInterface /\ [][NextInterface]_vars

\* ------------------------------------------------------------------------
\* Steps 2 and 3 of _process_playlist on their own: a playlist with any track
\* list of BatchTrackLists has reached download_tracks in a fresh WorkArea.
InitDownload ==
    /\ \E tracks \in BatchTrackLists :
          /\ remote = [p \in PlaylistIds |->
                IF p = Library[1] THEN [name |-> NameRoadtrip, tracks |-> tracks]
                ELSE [name |-> NamePlain, tracks |-> <<>>]]
          /\ playlists = <<[id |-> Library[1], name |-> NameRoadtrip, tracks |-> tracks]>>
    /\ thumbnailParams = ProviderParams
    /\ fs = [d \in {SafeName(NameRoadtrip)} |-> {}]
    /\ run = 1
    /\ pc = "download"
    /\ offset = 0
    /\ tagged = playlists
    /\ idx = 1
    /\ work_dir = SafeName(NameRoadtrip)
    /\ thumbnail_path = DefaultThumbnail
    /\ downloaded = <<>>
    /\ audio_paths = <<>>
    /\ reused = {}
    /\ calls = [NoCalls EXCEPT ![Library[1]]["thumbnail"] = 1]
    /\ visits = [Zero EXCEPT ![Library[1]] = 1]
    /\ outcome = [None EXCEPT ![Library[1]] = "running"]
    /\ raisedIn = None
    /\ retrieved = Unset
    /\ composed = Unset
    /\ discoveryRaised = FALSE
    /\ namesAtStart = [p \in PlaylistIds |-> remote[p].name]
    /\ doneInRun = Zero
    /\ pendingSince = Zero

NextDownload ==
    \/ DownloadStage
    \/ AssembleStage

SpecDownload == InitDownload /\ [][NextDownload]_vars

\* ------------------------------------------------------------------------
\* Properties.
FirstFour == {"thumbnail", "audio", "compose", "publish"}
ProcessingPcs == {"thumbnail", "download", "assemble", "upload", "mark", "except", "finally"}
\* _process_playlist is running for p.
InProcess(p) == pc \in ProcessingPcs /\ Cur.id = p
\* _process_playlist has returned for p in this run.
Ended(p) == visits[p] = 1 /\ ~InProcess(p)
\* The stage was called for p in this run and returned its result (for the
\* audio stage: at least one track).
Succeeded(p, stage) ==
    /\ calls[p][stage] = 1
    /\ raisedIn[p] # stage
    /\ stage = "audio" => retrieved[p] > 0
FourSucceeded(p) == \A stage \in FirstFour : Succeeded(p, stage)
\* This run changed p's remote name from the pending to the done marker.
MarkedDone(p) ==
    /\ remote[p].name # namesAtStart[p]
    /\ Contains(YOUTUBE_TAG, namesAtStart[p])
    /\ Contains(DONE_TAG, remote[p].name)
    /\ ~Contains(YOUTUBE_TAG, remote[p].name)
AllVisited == \A i \in 1..Len(playlists) : visits[playlists[i].id] = 1
\* The WorkArea of the playlist as run() discovered it.
WorkAreaOf(p) == SafeName(namesAtStart[p])

IsRetrievable(track) == track \in Retrievable
IsPending(name) == Contains(YOUTUBE_TAG, name)
\* The track whose audio the file at path holds.
AudioOf(path) == (CHOOSE f \in fs[path[1]] : f.name = path[2]).track
NoStageCalled(p) == \A stage \in Stages : calls[p][stage] = 0

C6_RetrievablePlaylistIsComposedPublishedRenamed ==
    \A p \in PlaylistIds :
        ( /\ Ended(p)
          /\ \E i \in 1..Len(remote[p].tracks) : IsRetrievable(remote[p].tracks[i])
          /\ raisedIn[p] \notin {"compose", "publish", "mark"} ) =>
            /\ calls[p]["compose"] = 1
            /\ composed[p] = Len(SelectSeq(remote[p].tracks, IsRetrievable))
            /\ calls[p]["publish"] = 1
            /\ calls[p]["mark"] = 1
            /\ MarkedDone(p)

C9_DiscoveryFailureEndsRun ==
    discoveryRaised =>
        /\ pc = "crashed"
        /\ playlists = <<>>
        /\ \A p \in PlaylistIds :
              visits[p] = 0 /\ NoStageCalled(p) /\ remote[p].name = namesAtStart[p]

C9_Witness ==
    /\ discoveryRaised
    /\ pc = "crashed"
    /\ tagged # <<>>
    /\ offset > 0

\* C10: in one run, stages are invoked for exactly the playlists whose name
\* contains the pending marker, and each of them is processed exactly once.
C10_ExactlyTaggedPlaylistsOnce ==
    /\ \A p \in PlaylistIds :
          /\ (visits[p] > 0 \/ ~NoStageCalled(p)) => IsPending(namesAtStart[p])
          /\ visits[p] <= 1
          /\ \A stage \in Stages : calls[p][stage] <= 1
          /\ pc = "returned" =>
                (IsPending(namesAtStart[p]) => visits[p] = 1 /\ calls[p]["thumbnail"] = 1)
    /\ \A i, j \in 1..Len(playlists) : playlists[i].id = playlists[j].id => i = j

C10_Witness ==
    /\ pc = "returned"
    /\ \E p, q \in PlaylistIds :
          /\ IsPending(namesAtStart[p]) /\ visits[p] = 1
          /\ ~IsPending(namesAtStart[q]) /\ visits[q] = 0 /\ NoStageCalled(q)

\* C11: the call generate_thumbnail(name, work_dir, cover_url) of step 1 never
\* raises for any playlist and leaves an image path in thumbnail_path, so no
\* playlist's processing ends at the thumbnail stage.
C11_ThumbnailStageNeverRaises ==
    \A p \in PlaylistIds :
        /\ raisedIn[p] # "thumbnail"
        /\ (InProcess(p) /\ calls[p]["thumbnail"] = 1) => thumbnail_path # <<>>
        /\ Ended(p) => calls[p]["audio"] = 1

StageOrder == <<"thumbnail", "audio", "compose", "publish", "mark">>
\* One step of the program, as far as the order of the stage calls and the
\* removal of the WorkArea are concerned.
OrderedStep ==
    /\ \A p \in PlaylistIds : \A k \in 1..Len(StageOrder) :
          (run' = run /\ calls'[p][StageOrder[k]] # calls[p][StageOrder[k]]) =>
              /\ InProcess(p)
              /\ Exists(work_dir)
              /\ \A j \in 1..(k - 1) : Succeeded(p, StageOrder[j])
              /\ \A j \in k..Len(StageOrder) : calls[p][StageOrder[j]] = 0
    /\ DOMAIN fs' # DOMAIN fs =>
          \/ pc = "loop" /\ pc' = "thumbnail" /\ DOMAIN fs = {} /\ DOMAIN fs' = {work_dir'}
          \/ /\ pc = "finally" /\ pc' = "loop" /\ idx' = idx + 1
             /\ DOMAIN fs = {work_dir} /\ DOMAIN fs' = {}
             /\ calls' = calls /\ remote' = remote /\ outcome' = outcome
    /\ (pc \in ProcessingPcs /\ pc' \notin ProcessingPcs) =>
          pc = "finally" /\ Exists(work_dir) /\ DOMAIN fs' = {}
    /\ \A p \in PlaylistIds :
          (run' = run /\ Ended(p)) =>
              /\ calls'[p] = calls[p]
              /\ visits'[p] = visits[p]
              /\ outcome'[p] = outcome[p]
              /\ remote'[p] = remote[p]

=============================================================================
